---- MODULE Spec2Model ----
(***************************************************************************)
(* Model of the multi-format loader / comparator (src/main.py) and of the  *)
(* TOON exporter of the data generator (src/bd.py).                        *)
(*                                                                         *)
(* Python values are encoded as follows.                                   *)
(*   None / present value : None == <<>>, Some(v) == <<v>>                 *)
(*   a path               : a sequence of path components                  *)
(*   elapsed seconds      : an integer number of ticks of 1/10000 s        *)
(*                          (round(t1 - t0, 4), main.py:154)               *)
(*   a str                : a sequence of one-character strings            *)
(*   dict                 : a sequence of entries in insertion order       *)
(***************************************************************************)
EXTENDS Integers, Sequences, FiniteSets, TLC

VARIABLES
    records,        \* ComparatorPanel.records: fmt -> (file, time, rows)
    table,          \* the rows of ComparatorPanel.table
    ranking,        \* the ranking _refresh computed last
    raised,         \* whether the last call of record raised
    firstRecorded,  \* history: the slots in the order of their first record
    selected_file,  \* FormatPanel.selected_file, per slot
    df,             \* FormatPanel.df, per slot: the row count of the dataset
    shown,          \* the rows FormatPanel.table shows, per slot
    spinner,        \* whether the panel's loading indicator runs, per slot
    workers,        \* the load worker threads started so far
    dados,          \* the rows handed to exportar_todos
    toon_file,      \* the text of dados.toon
    toon_df,        \* what the TOON branch of _load_worker made of that file
    search_df,      \* the dataset of the panel that is searched
    search_var,     \* the text of the search entry
    found,          \* the rows search selected last
    search_log      \* what the last call of search logged

ledgerVars == <<records, table, ranking, raised, firstRecorded>>

panelVars == <<selected_file, df, shown, spinner, workers>>

toonVars == <<dados, toon_file, toon_df>>

searchVars == <<search_df, search_var, found, search_log>>

vars == <<records, table, ranking, raised, firstRecorded,
          selected_file, df, shown, spinner, workers,
          dados, toon_file, toon_df, search_df, search_var, found, search_log>>

(***************************************************************************)
(* Bounds of the model.                                                    *)
(***************************************************************************)
\* How many of LoadChoices a timed load may report.
NLoads == 3

\* How many worker threads the user starts in all.
MaxThreads == 2

\* How many of the four panels the user works with while workers run.
NPanelsUsed == 2

\* How many of LoadChoices a load worker may report.
NThreadLoads == 1

\* How many rows exportar_todos is given at most, and how many of
\* ToonValueChoices their cells are drawn from.
MaxToonRows == 2

NToonValues == 3

\* The datasets that are searched: at most MaxSearchRows rows of two cells
\* drawn from the first NSearchCells of SearchCellChoices; and how many of
\* QueryChoices the user types.
MaxSearchRows == 2

NSearchCells == 4

NQueries == 7

(***************************************************************************)
(* Program constants.                                                      *)
(***************************************************************************)
TicksPerSecond == 10000

SizeUnitLimit == 1000000

MaxPreviewRows == 1000

None == <<>>

Some(v) == <<v>>

\* The four format slots, in the order in which App builds the panels and
\* in which _refresh walks them.
FormatKeys == <<"sqlite", "csv", "json", "toon">>

Formats == {FormatKeys[i] : i \in 1..Len(FormatKeys)}

\* Outcomes of a timed load, <<elapsed ticks, row count>>: 0.5 s and 0.2 s
\* for 1000 rows, 0.5 s for no row, less than a tick, and others.
LoadChoices == <<<<5000, 1000>>, <<2000, 1000>>, <<5000, 0>>, <<0, 1000>>,
                 <<1, 7>>, <<3333, 1>>>>

Loads == {LoadChoices[i] : i \in 1..NLoads}

ThreadLoads == {LoadChoices[i] : i \in 1..NThreadLoads}

(***************************************************************************)
(* The file system the program runs against: one file that exists, and a  *)
(* path in a directory that does not exist (so that no decoder, not even   *)
(* sqlite3.connect, brings the file into being).                           *)
(***************************************************************************)
GoodPath == <<"data", "x.csv">>

GonePath == <<"nodir", "gone.db">>

Paths == {GoodPath, GonePath}

Exists(p) == p = GoodPath

FileSize(p) == 2048

\* os.path.basename
Basename(p) == p[Len(p)]

(***************************************************************************)
(* ComparatorPanel                                                         *)
(***************************************************************************)
HasKey(recs, fmt) == \E i \in 1..Len(recs) : recs[i].fmt = fmt

KeyIndex(recs, fmt) == CHOOSE i \in 1..Len(recs) : recs[i].fmt = fmt

\* self.records.get(fmt)
Get(recs, fmt) == IF HasKey(recs, fmt) THEN Some(recs[KeyIndex(recs, fmt)]) ELSE None

Entry(fmt, file, t, rows) == [fmt |-> fmt, file |-> file, time |-> t, rows |-> rows]

\* A plausible slip: the slot is deleted and inserted again, which moves it
\* to the end of the dict.
UpsertMovesToEnd(recs, fmt, file, t, rows) ==
    Append(SelectSeq(recs, LAMBDA e : e.fmt # fmt), Entry(fmt, file, t, rows))

\* self.records[fmt_key] = (file, time_s, rows): a key that is already in
\* the dict keeps its place, a new key goes to the end.
Upsert(recs, fmt, file, t, rows) ==
    IF HasKey(recs, fmt)
    THEN [recs EXCEPT ![KeyIndex(recs, fmt)] = Entry(fmt, file, t, rows)]
    ELSE Append(recs, Entry(fmt, file, t, rows))

\* valid_times: the entries whose time is not None, in dict order.
ValidTimes(recs) == SelectSeq(recs, LAMBDA e : e.time # None)

\* min(valid, key=time): the first entry that no entry undercuts.
MinByTime(valid) ==
    valid[CHOOSE i \in 1..Len(valid) :
            /\ \A j \in 1..Len(valid) : valid[i].time[1] <= valid[j].time[1]
            /\ \A j \in 1..(i - 1) : valid[j].time[1] # valid[i].time[1]]

\* max(valid, key=time): the first entry that no entry exceeds.
MaxByTime(valid) ==
    valid[CHOOSE i \in 1..Len(valid) :
            /\ \A j \in 1..Len(valid) : valid[i].time[1] >= valid[j].time[1]
            /\ \A j \in 1..(i - 1) : valid[j].time[1] # valid[i].time[1]]

\* One insertion of the stable sort: e goes behind every entry that is not
\* slower than it.
RECURSIVE InsertByTime(_, _)
InsertByTime(sorted, e) ==
    IF sorted = <<>> THEN <<e>>
    ELSE IF sorted[Len(sorted)].time[1] <= e.time[1] THEN Append(sorted, e)
    ELSE Append(InsertByTime(SubSeq(sorted, 1, Len(sorted) - 1), e), sorted[Len(sorted)])

\* sorted(valid, key=time): ascending and stable (an insertion sort, as
\* CPython runs it on a short list).
RECURSIVE SortedByTime(_)
SortedByTime(valid) ==
    IF valid = <<>> THEN <<>>
    ELSE InsertByTime(SortedByTime(SubSeq(valid, 1, Len(valid) - 1)), valid[Len(valid)])

\* ranking = {fmt: i + 1 for i, (fmt, ...) in enumerate(ordered)}
RankingOf(ordered) ==
    [f \in {ordered[i].fmt : i \in 1..Len(ordered)} |->
        CHOOSE i \in 1..Len(ordered) : ordered[i].fmt = f]

(***************************************************************************)
(* Number formatting of the speed column.                                  *)
(***************************************************************************)
DigitChars == <<"0", "1", "2", "3", "4", "5", "6", "7", "8", "9">>

RECURSIVE Digits(_)
Digits(n) == IF n < 10 THEN <<DigitChars[n + 1]>>
             ELSE Append(Digits(n \div 10), DigitChars[(n % 10) + 1])

\* f"{n:,}".replace(",", "."): groups of three digits from the right.
RECURSIVE Grouped(_, _)
Grouped(ds, i) ==
    IF i > Len(ds) THEN <<>>
    ELSE (IF i > 1 /\ (Len(ds) - i + 1) % 3 = 0 THEN <<".">> ELSE <<>>)
         \o <<ds[i]>> \o Grouped(ds, i + 1)

FormatSpeed(n) == Grouped(Digits(n), 1)

\* Python truthiness of an optional number: None and 0 are false.
Truthy(opt) == opt # None /\ opt[1] # 0

\* speed = '' ; if t and rows: speed = format(int(rows / t))
SpeedCell(t, rows) ==
    IF Truthy(t) /\ Truthy(rows)
    THEN FormatSpeed((rows[1] * TicksPerSecond) \div t[1])
    ELSE <<>>

\* The size column: the unit and the size in tenths (KB) or hundredths (MB)
\* of it.
SizeCell(bytes) ==
    IF bytes < SizeUnitLimit
    THEN <<"KB", (bytes * 10) \div 1024>>
    ELSE <<"MB", (bytes * 100) \div (1024 * 1024)>>

\* A cell that shows a Python value handed to the table as it is.
ValueCell(opt) == IF opt = None THEN <<"None">> ELSE <<"num", opt[1]>>

BlankCell == <<"str">>

BlankRow(fmt) ==
    [format |-> fmt, file |-> "", time_s |-> BlankCell, rows |-> BlankCell,
     size |-> <<>>, speed |-> <<>>, rank |-> None, tags |-> <<>>]

\* if fmt == fastest[0]: 'fastest' elif fmt == slowest[0]: 'slowest'
TagOf(fmt, fastest, slowest) ==
    IF fmt = fastest.fmt THEN "fastest"
    ELSE IF fmt = slowest.fmt THEN "slowest"
    ELSE ""

\* os.path.getsize(file) raises OSError for a path that names no file.
SizeRaises(rec) == rec.file # None /\ ~Exists(rec.file[1])

DataRow(rec, rnk, fastest, slowest) ==
    [format |-> rec.fmt,
     file   |-> IF rec.file # None THEN Basename(rec.file[1]) ELSE "",
     time_s |-> ValueCell(rec.time),
     rows   |-> ValueCell(rec.rows),
     size   |-> IF rec.file # None THEN SizeCell(FileSize(rec.file[1])) ELSE <<>>,
     speed  |-> SpeedCell(rec.time, rec.rows),
     rank   |-> IF rec.fmt \in DOMAIN rnk THEN Some(rnk[rec.fmt]) ELSE None,
     tags   |-> <<TagOf(rec.fmt, fastest, slowest)>>]

\* The row _refresh inserts for slot i.
RowOf(recs, rnk, fastest, slowest, i) ==
    LET got == Get(recs, FormatKeys[i])
    IN IF got = None THEN BlankRow(FormatKeys[i])
       ELSE DataRow(got[1], rnk, fastest, slowest)

\* Whether the loop of _refresh raises at slot i.
RaisesAt(recs, i) ==
    LET got == Get(recs, FormatKeys[i])
    IN got # None /\ SizeRaises(got[1])

\* The loop of _refresh over the four slots: a row per slot is inserted
\* until getsize raises, which ends the loop.
BuildRows(recs, rnk, fastest, slowest) ==
    LET n    == Len(FormatKeys)
        bad  == {i \in 1..n : RaisesAt(recs, i)}
        last == IF bad = {} THEN n
                ELSE (CHOOSE i \in bad : \A j \in bad : i <= j) - 1
    IN [rows |-> [i \in 1..last |-> RowOf(recs, rnk, fastest, slowest, i)],
        raised |-> bad # {}]

EmptyRanking == [f \in {} |-> 0]

\* _refresh after the table has been emptied: nothing is shown when no
\* record has a time, otherwise the ranking is computed and the rows built.
RefreshFrom(recs, tbl) ==
    LET valid == ValidTimes(recs) IN
    IF valid = <<>>
    THEN [table |-> tbl, raised |-> FALSE, ranking |-> EmptyRanking]
    ELSE LET fastest == MinByTime(valid)
             slowest == MaxByTime(valid)
             rnk     == RankingOf(SortedByTime(valid))
             built   == BuildRows(recs, rnk, fastest, slowest)
         IN [table |-> tbl \o built.rows, raised |-> built.raised, ranking |-> rnk]

\* _refresh: self.table.delete(*children), then the rebuild.
Refresh(recs) == RefreshFrom(recs, <<>>)

\* What a load worker hands to record: a failed load (no time, no rows) of
\* any path, or a timed load of a file that exists.
RecordInputs ==
    {<<Some(p), None, None>> : p \in Paths}
    \cup {<<Some(GoodPath), Some(l[1]), Some(l[2])>> : l \in Loads}

\* ComparatorPanel.record(fmt_key, file, time_s, rows), called on its own:
\* the slot is set and _refresh rebuilds the table. raised tells whether the
\* call ended with the OSError of getsize.
Record(fmt, file, t, rows) ==
    /\ records' = Upsert(records, fmt, file, t, rows)
    /\ \E out \in {Refresh(records')} :
          /\ table' = out.table
          /\ ranking' = out.ranking
          /\ raised' = out.raised
    /\ firstRecorded' = IF \E i \in 1..Len(firstRecorded) : firstRecorded[i] = fmt
                        THEN firstRecorded ELSE Append(firstRecorded, fmt)
    /\ UNCHANGED <<panelVars, toonVars, searchVars>>

(***************************************************************************)
(* Claims about the ledger, checked under Spec.                            *)
(***************************************************************************)
\* The slots whose current record has a time.
TimedSlots == {records[i].fmt : i \in {j \in 1..Len(records) : records[j].time # None}}

\* The elapsed ticks of a slot of TimedSlots.
TicksOf(fmt) == records[KeyIndex(records, fmt)].time[1]

\* The place of a slot in the order of first recording.
FirstPlace(fmt) == CHOOSE i \in 1..Len(firstRecorded) : firstRecorded[i] = fmt

\* The rows the table shows for a slot.
RowsShown(fmt) == {i \in 1..Len(table) : table[i].format = fmt}

\* C1: the ranking covers exactly the slots whose current record has a time;
\* the rank of a slot is its 1-based place in ascending order of time, and of
\* two slots with the same time the one that was recorded first has the lower
\* rank. The table shows that rank for the slot and none for the others.
C1_RankByTimeThenFirstRecorded ==
    /\ DOMAIN ranking = TimedSlots
    /\ \A f \in TimedSlots :
          ranking[f] = 1 + Cardinality({g \in TimedSlots :
                                \/ TicksOf(g) < TicksOf(f)
                                \/ (TicksOf(g) = TicksOf(f) /\ FirstPlace(g) < FirstPlace(f))})
    /\ \A i \in 1..Len(table) :
          table[i].rank = IF table[i].format \in TimedSlots
                          THEN Some(ranking[table[i].format]) ELSE None

\* C1 witness: all four slots are recorded, one of them failed, two of them
\* tie and a third is faster, and the tied slot that was recorded first comes
\* later in the order of the panels.
C1_Witness ==
    /\ Len(records) = Len(FormatKeys)
    /\ Cardinality(TimedSlots) = 3
    /\ \E f, g, h \in TimedSlots :
          /\ f # g
          /\ TicksOf(f) = TicksOf(g)
          /\ TicksOf(h) < TicksOf(f)
          /\ FirstPlace(f) < FirstPlace(g)
          /\ f = "toon" /\ g = "csv"
          /\ ranking[h] = 1 /\ ranking[f] = 2 /\ ranking[g] = 3

\* The slots first and last in the ascending order of time.
OrderedSlots == LET ord == SortedByTime(ValidTimes(records))
                IN [i \in 1..Len(ord) |-> ord[i].fmt]

HasTag(fmt, tag) ==
    /\ RowsShown(fmt) # {}
    /\ \A i \in RowsShown(fmt) : \E k \in 1..Len(table[i].tags) : table[i].tags[k] = tag

\* C2: when a slot has a time, the first slot of the ascending order is
\* tagged fastest and the last slot of that order is tagged slowest (one slot
\* alone is tagged both).
C2_FastestAndSlowestTagged ==
    TimedSlots # {} =>
        /\ HasTag(OrderedSlots[1], "fastest")
        /\ HasTag(OrderedSlots[Len(OrderedSlots)], "slowest")

\* The number a speed cell shows, digit groups read back.
RECURSIVE ParseDigits(_, _)
ParseDigits(cs, acc) ==
    IF cs = <<>> THEN acc
    ELSE IF cs[1] = "." THEN ParseDigits(Tail(cs), acc)
    ELSE ParseDigits(Tail(cs),
                     acc * 10 + ((CHOOSE d \in 1..10 : DigitChars[d] = cs[1]) - 1))

\* C3: the throughput of a shown slot is rows / seconds rounded down when the
\* time is present and not zero (for any row count, 0 too) and blank exactly
\* when the time is zero or absent; csv 0.5 s and json 0.2 s of 1000 rows
\* show json rank 1, csv rank 2, csv 2000 and json 5000.
C3_ThroughputFloorOrBlank ==
    \A i \in 1..Len(table) :
        HasKey(records, table[i].format) =>
            LET rec == records[KeyIndex(records, table[i].format)]
            IN IF rec.time # None /\ rec.time[1] # 0
               THEN /\ table[i].speed # <<>>
                    /\ ParseDigits(table[i].speed, 0)
                         = (rec.rows[1] * TicksPerSecond) \div rec.time[1]
               ELSE table[i].speed = <<>>

\* A cell that shows no value.
IsBlank(cell) == cell = BlankCell \/ cell = ValueCell(None)

\* C5: a slot whose current record is a failed one is shown, with blank
\* time, rows, throughput and rank, and is not ranked.
C5_FailedSlotShownBlank ==
    \A k \in 1..Len(records) :
        records[k].time = None =>
            /\ records[k].fmt \notin DOMAIN ranking
            /\ RowsShown(records[k].fmt) # {}
            /\ \A i \in RowsShown(records[k].fmt) :
                  /\ IsBlank(table[i].time_s)
                  /\ IsBlank(table[i].rows)
                  /\ table[i].speed = <<>>
                  /\ table[i].rank = None

\* C10: a call of record with the very record the slot holds leaves the
\* records, the ranking and the table (ranks, tags, throughput, row order) as
\* they were.
C10_ResubmitChangesNothing ==
    [][\A i \in 1..Len(records) :
          Record(records[i].fmt, records[i].file, records[i].time, records[i].rows)
              => UNCHANGED <<records, ranking, table, raised>>]_vars

\* C10 witness: the record of a slot that ties with a slot recorded after it
\* has been submitted; submitting it again is a call the claim covers.
C10_Witness ==
    /\ Len(records) >= 3
    /\ Len(table) = Len(FormatKeys)
    /\ \E i, j \in 1..Len(records) :
          /\ i < j
          /\ records[i].time # None
          /\ records[i].time = records[j].time
          /\ ranking[records[i].fmt] + 1 = ranking[records[j].fmt]
          /\ <<records[i].file, records[i].time, records[i].rows>> \in RecordInputs

(***************************************************************************)
(* FormatPanel, its load workers, and App.limpar_tudo.                     *)
(***************************************************************************)
UsedPanels == {FormatKeys[i] : i \in 1..NPanelsUsed}

Min(a, b) == IF a <= b THEN a ELSE b

\* A worker that has ended, with or without an exception.
Ended(w) == w.pc \in {"done", "raised"}

NewWorker(fmt) ==
    [slot |-> fmt, pc |-> "start", path |-> None, failed |-> FALSE,
     time |-> None, rows |-> None]

\* FormatPanel.select_file: the dialog returns a path.
SelectFile(fmt, p) ==
    /\ selected_file' = [selected_file EXCEPT ![fmt] = Some(p)]
    /\ UNCHANGED <<ledgerVars, df, shown, spinner, workers, toonVars, searchVars>>

\* load_file, lines 100-102: only a missing selection keeps it from
\* starting a worker.
LoadFileGuard(fmt) == selected_file[fmt] # None

\* FormatPanel.load_file: the spinner starts and a worker thread is started.
LoadFile(fmt) ==
    /\ LoadFileGuard(fmt)
    /\ Len(workers) < MaxThreads
    /\ spinner' = [spinner EXCEPT ![fmt] = TRUE]
    /\ workers' = Append(workers, NewWorker(fmt))
    /\ UNCHANGED <<ledgerVars, selected_file, df, shown, toonVars, searchVars>>

\* _load_worker, line 112: path = self.selected_file
WStart(i) ==
    /\ workers[i].pc = "start"
    /\ workers' = [workers EXCEPT ![i].pc = "decode",
                                   ![i].path = selected_file[workers[i].slot]]
    /\ UNCHANGED <<ledgerVars, selected_file, df, shown, spinner, toonVars, searchVars>>

\* The decode of lines 115-142 (with _load_sqlite and its table dialog)
\* raises: no path, no such file, a parse error, a database without tables.
WDecodeFails(i) ==
    /\ workers[i].pc = "decode"
    /\ workers' = [workers EXCEPT ![i].pc = "except", ![i].failed = TRUE]
    /\ UNCHANGED <<ledgerVars, selected_file, df, shown, spinner, toonVars, searchVars>>

\* The decode of lines 115-142 succeeds, which takes a file that exists; the
\* elapsed time and the row count are those of lines 153-155.
WDecodeLoads(i) ==
    /\ workers[i].pc = "decode"
    /\ workers[i].path # None
    /\ Exists(workers[i].path[1])
    /\ \E l \in ThreadLoads :
          workers' = [workers EXCEPT ![i].pc = "loaded",
                                     ![i].time = Some(l[1]),
                                     ![i].rows = Some(l[2])]
    /\ UNCHANGED <<ledgerVars, selected_file, df, shown, spinner, toonVars, searchVars>>

\* Lines 156-159: self.df = df and the preview of at most 1000 rows.
WLoaded(i) ==
    /\ workers[i].pc = "loaded"
    /\ df' = [df EXCEPT ![workers[i].slot] = workers[i].rows]
    /\ shown' = [shown EXCEPT ![workers[i].slot] = Min(workers[i].rows[1], MaxPreviewRows)]
    /\ workers' = [workers EXCEPT ![i].pc = "upsert"]
    /\ UNCHANGED <<ledgerVars, selected_file, spinner, toonVars, searchVars>>

\* Lines 144-146: the except branch sets self.df = None.
WExcept(i) ==
    /\ workers[i].pc = "except"
    /\ df' = [df EXCEPT ![workers[i].slot] = None]
    /\ workers' = [workers EXCEPT ![i].pc = "upsert"]
    /\ UNCHANGED <<ledgerVars, selected_file, shown, spinner, toonVars, searchVars>>

\* record, line 287: the slot is set.
WUpsert(i) ==
    LET w == workers[i] IN
    /\ w.pc = "upsert"
    /\ records' = Upsert(records, w.slot, w.path, w.time, w.rows)
    /\ firstRecorded' = IF \E k \in 1..Len(firstRecorded) : firstRecorded[k] = w.slot
                        THEN firstRecorded ELSE Append(firstRecorded, w.slot)
    /\ workers' = [workers EXCEPT ![i].pc = "clear"]
    /\ UNCHANGED <<table, ranking, raised, selected_file, df, shown, spinner, toonVars, searchVars>>

\* _refresh, line 291: the table is emptied.
WClear(i) ==
    /\ workers[i].pc = "clear"
    /\ table' = <<>>
    /\ workers' = [workers EXCEPT ![i].pc = "build"]
    /\ UNCHANGED <<records, ranking, raised, firstRecorded, selected_file, df, shown, spinner,
                   toonVars, searchVars>>

\* _refresh, lines 293-341: the rows are built from the records as they are
\* now and appended to the table as it is now; an OSError of getsize ends the
\* thread.
WBuild(i) ==
    \E out \in {RefreshFrom(records, table)} :
       /\ workers[i].pc = "build"
       /\ table' = out.table
       /\ ranking' = out.ranking
       /\ raised' = out.raised
       /\ workers' = [workers EXCEPT ![i].pc = IF out.raised THEN "raised" ELSE "stop"]
       /\ UNCHANGED <<records, firstRecorded, selected_file, df, shown, spinner,
                      toonVars, searchVars>>

\* Lines 148-149 and 162-163: the spinner stops and the worker returns.
WStop(i) ==
    /\ workers[i].pc = "stop"
    /\ spinner' = [spinner EXCEPT ![workers[i].slot] = FALSE]
    /\ workers' = [workers EXCEPT ![i].pc = "done"]
    /\ UNCHANGED <<ledgerVars, selected_file, df, shown, toonVars, searchVars>>

\* App.limpar_tudo: the records are dropped and the table rebuilt (emptied),
\* and every panel loses its file, its dataset, its preview and its spinner.
LimparTudo ==
    /\ records' = <<>>
    /\ firstRecorded' = <<>>
    /\ table' = Refresh(<<>>).table
    /\ ranking' = Refresh(<<>>).ranking
    /\ raised' = FALSE
    /\ selected_file' = [f \in Formats |-> None]
    /\ df' = [f \in Formats |-> None]
    /\ shown' = [f \in Formats |-> 0]
    /\ spinner' = [f \in Formats |-> FALSE]
    /\ UNCHANGED <<workers, toonVars, searchVars>>

(***************************************************************************)
(* Text: a str is a sequence of one-character strings.                     *)
(***************************************************************************)
Whitespace == {" ", "\n", "\t"}

\* sep.join(parts)
RECURSIVE JoinWith(_, _)
JoinWith(parts, sep) ==
    IF parts = <<>> THEN <<>>
    ELSE IF Len(parts) = 1 THEN parts[1]
    ELSE parts[1] \o <<sep>> \o JoinWith(Tail(parts), sep)

FirstIndexOf(s, c) == CHOOSE i \in 1..Len(s) : s[i] = c /\ \A j \in 1..(i - 1) : s[j] # c

Occurs(s, c) == \E i \in 1..Len(s) : s[i] = c

\* s.split(sep)
RECURSIVE SplitOn(_, _)
SplitOn(s, sep) ==
    IF ~Occurs(s, sep) THEN <<s>>
    ELSE <<SubSeq(s, 1, FirstIndexOf(s, sep) - 1)>>
         \o SplitOn(SubSeq(s, FirstIndexOf(s, sep) + 1, Len(s)), sep)

\* f.readlines(): the lines, each with the line feed that ends it.
RECURSIVE ReadLines(_)
ReadLines(text) ==
    IF text = <<>> THEN <<>>
    ELSE IF ~Occurs(text, "\n") THEN <<text>>
    ELSE <<SubSeq(text, 1, FirstIndexOf(text, "\n"))>>
         \o ReadLines(SubSeq(text, FirstIndexOf(text, "\n") + 1, Len(text)))

\* s.strip()
RECURSIVE Strip(_)
Strip(s) ==
    IF s = <<>> THEN s
    ELSE IF s[1] \in Whitespace THEN Strip(Tail(s))
    ELSE IF s[Len(s)] \in Whitespace THEN Strip(SubSeq(s, 1, Len(s) - 1))
    ELSE s

\* str(v) of a cell value <<"int", n>> or <<"str", s>>.
StrOf(v) == IF v[1] = "int" THEN Digits(v[2]) ELSE v[2]

(***************************************************************************)
(* The TOON exporter (bd.py) and the TOON decoder (main.py).               *)
(***************************************************************************)
\* The keys of the rows gerar_dados makes, of which the model keeps two.
ToonKeys == <<<<"i", "d">>, <<"n", "o", "m", "e">>>>

ToonValueChoices ==
    <<<<"int", 12>>, <<"str", <<"a">>>>, <<"str", <<"a", " ">>>>,
      <<"str", <<"b", "|", "c">>>>, <<"str", <<>>>>>>

ToonValues == {ToonValueChoices[i] : i \in 1..NToonValues}

\* A row is a dict: its <<key, value>> items in insertion order.
ToonRows == {<<<<ToonKeys[1], v1>>, <<ToonKeys[2], v2>>>> : v1, v2 \in ToonValues}

DadosChoices == UNION {[1..n -> ToonRows] : n \in 1..MaxToonRows}

Keys(row) == [i \in 1..Len(row) |-> row[i][1]]

Values(row) == [i \in 1..Len(row) |-> row[i][2]]

\* exportar_todos, lines 93-94: a line per row, str(v) of its values joined
\* by "|".
RECURSIVE ToonLines(_)
ToonLines(d) ==
    IF d = <<>> THEN <<>>
    ELSE JoinWith([i \in 1..Len(d[1]) |-> StrOf(Values(d[1])[i])], "|") \o <<"\n">>
         \o ToonLines(Tail(d))

\* exportar_todos, lines 91-94: the names of the first row on a line, then
\* the lines of the rows.
ToonText(d) == JoinWith(Keys(d[1]), "|") \o <<"\n">> \o ToonLines(d)

\* 'col_' + str(i + 1)
ColName(i) == <<"c", "o", "l", "_">> \o Digits(i)

FailedFrame == [ok |-> FALSE, columns |-> <<>>, rows |-> <<>>]

\* _load_worker, lines 128-139: the first line gives the number of columns,
\* every line (the first too) gives a row. linhas[0] raises on an empty
\* file, and DataFrame raises when a row has more cells than columns; a
\* shorter row is filled with None.
DecodeToon(text) ==
    LET linhas == ReadLines(text) IN
    IF linhas = <<>> THEN FailedFrame
    ELSE LET ncols  == Len(SplitOn(linhas[1], "|"))
             parsed == [i \in 1..Len(linhas) |-> SplitOn(Strip(linhas[i]), "|")]
         IN IF \E i \in 1..Len(parsed) : Len(parsed[i]) > ncols THEN FailedFrame
            ELSE [ok |-> TRUE,
                  columns |-> [j \in 1..ncols |-> ColName(j)],
                  rows |-> [i \in 1..Len(parsed) |->
                              [j \in 1..ncols |->
                                  IF j <= Len(parsed[i]) THEN Some(parsed[i][j]) ELSE None]]]

\* exportar_todos, the TOON step: dados.toon is written.
ExportarTodos ==
    /\ toon_file' = Some(ToonText(dados))
    /\ UNCHANGED <<ledgerVars, panelVars, searchVars, dados, toon_df>>

\* The TOON panel decodes the file the exporter wrote.
LoadToon ==
    /\ toon_file # None
    /\ toon_df' = Some(DecodeToon(toon_file[1]))
    /\ UNCHANGED <<ledgerVars, panelVars, searchVars, dados, toon_file>>

(***************************************************************************)
(* FormatPanel.search                                                      *)
(***************************************************************************)
\* Cells of a DataFrame: <<"null", "nan">> (NaN), <<"null", "None">>,
\* <<"str", s>> and <<"int", n>>.
SearchCellChoices ==
    <<<<"null", "nan">>, <<"str", <<"A", "n", "a">>>>, <<"int", 10>>,
      <<"null", "None">>, <<"str", <<"(", "x">>>>, <<"str", <<>>>>>>

SearchCells == {SearchCellChoices[i] : i \in 1..NSearchCells}

SearchRowChoices == {<<c1, c2>> : c1, c2 \in SearchCells}

SearchFrames == UNION {[1..n -> SearchRowChoices] : n \in 1..MaxSearchRows}

\* What the user types: letters, digits, blanks, and the characters "." and
\* "(" that a regular expression reads as more than themselves.
QueryChoices ==
    <<<<"n", "a">>, <<"n", "a", "n">>, <<" ", "A", "N", " ">>, <<" ", " ">>,
      <<"n", ".">>, <<"(">>, <<"N", "o", "n", "e">>, <<"1", "0">>, <<"x">>>>

Queries == {QueryChoices[i] : i \in 1..NQueries}

UpperChars == <<"A", "B", "C", "D", "E", "F", "G", "H", "I", "J", "K", "L", "M",
                "N", "O", "P", "Q", "R", "S", "T", "U", "V", "W", "X", "Y", "Z">>

LowerChars == <<"a", "b", "c", "d", "e", "f", "g", "h", "i", "j", "k", "l", "m",
                "n", "o", "p", "q", "r", "s", "t", "u", "v", "w", "x", "y", "z">>

\* case=False: both sides are compared without regard to case.
LowerOf(c) ==
    IF \E i \in 1..Len(UpperChars) : UpperChars[i] = c
    THEN LowerChars[CHOOSE i \in 1..Len(UpperChars) : UpperChars[i] = c]
    ELSE c

\* col.astype(str): str(v) of every cell, of a null too ("nan", "None").
AsStr(cell) ==
    IF cell[1] = "null"
    THEN (IF cell[2] = "nan" THEN <<"n", "a", "n">> ELSE <<"N", "o", "n", "e">>)
    ELSE IF cell[1] = "int" THEN Digits(cell[2])
    ELSE cell[2]

\* str.contains compiles the term as a regular expression (regex=True is
\* the default): an unclosed "(" does not compile.
RegexInvalid(term) == Occurs(term, "(")

\* The pattern matches s at offset off: "." matches any character but a
\* line feed, any other character of the model matches itself, case aside.
MatchesAt(term, s, off) ==
    \A k \in 1..Len(term) :
        \/ term[k] = "." /\ s[off + k] # "\n"
        \/ term[k] # "." /\ LowerOf(term[k]) = LowerOf(s[off + k])

\* re.search(term, s, IGNORECASE) finds a match.
RegexContains(term, s) ==
    \E off \in 0..(Len(s) - Len(term)) : MatchesAt(term, s, off)

\* mask.any(axis=1): the rows with a cell whose string form matches.
MatchingRows(frame, term) ==
    {i \in 1..Len(frame) :
        \E j \in 1..Len(frame[i]) : RegexContains(term, AsStr(frame[i][j]))}

\* The user types a query.
TypeQuery(q) ==
    /\ search_var' = q
    /\ UNCHANGED <<ledgerVars, panelVars, toonVars, search_df, found, search_log>>

\* FormatPanel.search: no dataset and a blank term are logged and end the
\* call, and so does an exception of the match; otherwise the matching rows
\* are selected.
Search ==
    LET term == Strip(search_var) IN
    /\ IF search_df = None
       THEN search_log' = Some(<<"no data", term>>) /\ found' = found
       ELSE IF term = <<>>
       THEN search_log' = Some(<<"empty term", term>>) /\ found' = found
       ELSE IF RegexInvalid(term)
       THEN search_log' = Some(<<"search error", term>>) /\ found' = found
       ELSE /\ search_log' = Some(<<"results", term>>)
            /\ found' = Some(MatchingRows(search_df[1], term))
    /\ UNCHANGED <<ledgerVars, panelVars, toonVars, search_df, search_var>>

\* The state after construction of the comparator and of the panels.
InitLoader ==
    /\ records = <<>>
    /\ table = <<>>
    /\ ranking = EmptyRanking
    /\ raised = FALSE
    /\ firstRecorded = <<>>
    /\ selected_file = [f \in Formats |-> None]
    /\ df = [f \in Formats |-> None]
    /\ shown = [f \in Formats |-> 0]
    /\ spinner = [f \in Formats |-> FALSE]
    /\ workers = <<>>

\* No export has run.
InitToonIdle ==
    /\ dados = <<>>
    /\ toon_file = None
    /\ toon_df = None

\* No dataset is searched.
InitSearchIdle ==
    /\ search_df = None
    /\ search_var = <<>>
    /\ found = None
    /\ search_log = None

Init == InitLoader /\ InitToonIdle /\ InitSearchIdle

Next ==
    \E fmt \in Formats, inp \in RecordInputs : Record(fmt, inp[1], inp[2], inp[3])

Spec == Init /\ [][Next]_vars

NextThreads ==
    \/ \E fmt \in UsedPanels, p \in Paths : SelectFile(fmt, p)
    \/ \E fmt \in UsedPanels : LoadFile(fmt)
    \/ \E i \in 1..Len(workers) : WStart(i)
    \/ \E i \in 1..Len(workers) : WDecodeFails(i)
    \/ \E i \in 1..Len(workers) : WDecodeLoads(i)
    \/ \E i \in 1..Len(workers) : WLoaded(i)
    \/ \E i \in 1..Len(workers) : WExcept(i)
    \/ \E i \in 1..Len(workers) : WUpsert(i)
    \/ \E i \in 1..Len(workers) : WClear(i)
    \/ \E i \in 1..Len(workers) : WBuild(i)
    \/ \E i \in 1..Len(workers) : WStop(i)
    \/ LimparTudo

\* The user interface thread and the worker threads, interleaved.
SpecThreads == Init /\ [][NextThreads]_vars

(***************************************************************************)
(* Claims about the load workers, checked under SpecThreads.               *)
(***************************************************************************)
\* C4: no exception leaves a load worker whose decode failed.
C4_NoExceptionLeavesFailedLoad ==
    \A i \in 1..Len(workers) : workers[i].failed => workers[i].pc # "raised"

\* C6: no two workers of one slot are in flight together.
C6_OneDecodePerSlot ==
    \A i, j \in 1..Len(workers) :
        (i # j /\ ~Ended(workers[i]) /\ ~Ended(workers[j]))
            => workers[i].slot # workers[j].slot

\* A worker that has set its slot and has not left _refresh.
InsideRecord(w) == w.pc \in {"clear", "build"}

\* C7: no two workers are inside record together, and the table holds at
\* most a row per slot.
C7_LedgerWritesSerialized ==
    /\ Cardinality({i \in 1..Len(workers) : InsideRecord(workers[i])}) <= 1
    /\ Len(table) <= Len(FormatKeys)

\* No panel has a selected file: select_file alone sets one and limpar_tudo
\* alone unsets them, and load_file starts no worker without one, so no load
\* has been started since the last clear (or since construction).
NothingSelected == \A f \in Formats : selected_file[f] = None

\* C11: after limpar_tudo, and until a new load is started, the ledger holds
\* no record and no panel holds a dataset or a selected file; a worker that
\* was in flight when the clear ran repopulates neither.
C11_ClearedStaysCleared ==
    NothingSelected => (records = <<>> /\ \A f \in Formats : df[f] = None)

\* exportar_todos is given a non-empty list of rows (gerar refuses qtd <= 0).
InitToon ==
    /\ InitLoader
    /\ InitSearchIdle
    /\ dados \in DadosChoices
    /\ toon_file = None
    /\ toon_df = None

NextToon == ExportarTodos \/ LoadToon

\* The exporter, then the decoder, on every list of rows of the bounds.
SpecToon == InitToon /\ [][NextToon]_vars

\* C8: the decoded file has as many rows as the source, the same cell values
\* as strings in the same row order, and the column names col_1..col_n.
C8_ToonRoundTrip ==
    toon_df # None =>
        LET d == toon_df[1] IN
        /\ d.ok
        /\ Len(d.rows) = Len(dados)
        /\ d.columns = [j \in 1..Len(ToonKeys) |-> ColName(j)]
        /\ \A i \in 1..Len(dados) :
              d.rows[i] = [j \in 1..Len(dados[i]) |-> Some(StrOf(Values(dados[i])[j]))]

\* A panel with any dataset of the bounds, or with none.
InitSearch ==
    /\ InitLoader
    /\ InitToonIdle
    /\ search_df \in {None} \cup {Some(f) : f \in SearchFrames}
    /\ search_var = <<>>
    /\ found = None
    /\ search_log = None

NextSearch ==
    \/ \E q \in Queries : TypeQuery(q)
    \/ Search

SpecSearch == InitSearch /\ [][NextSearch]_vars

\* The query is a literal part of s, case aside.
LiteralContains(term, s) ==
    \E off \in 0..(Len(s) - Len(term)) :
        \A k \in 1..Len(term) : LowerOf(term[k]) = LowerOf(s[off + k])

\* C9: a search of a loaded dataset with a non-blank query selects exactly
\* the rows in which a cell that is not null contains the query literally,
\* case aside; a null cell makes no row match.
C9_SearchLiteralAndNullNeverMatches ==
    (search_log # None /\ search_df # None /\ search_log[1][2] # <<>>) =>
        (IF found = None THEN {} ELSE found[1])
            = {i \in 1..Len(search_df[1]) :
                  \E j \in 1..Len(search_df[1][i]) :
                      /\ search_df[1][i][j][1] # "null"
                      /\ LiteralContains(search_log[1][2], AsStr(search_df[1][i][j]))}

====
